---- MODULE Spec2Model ----
(***************************************************************************)
(* A model of conda/trust/signature_verification.py: the memoized gate     *)
(* `enabled`, the root resolver `trusted_root`, the key-manager resolver   *)
(* `key_mgr`, the fetcher `_fetch_channel_signing_data` and the artifact   *)
(* verifier `__call__`, run by one or two host threads against a signing   *)
(* server and a verification directory.                                    *)
(*                                                                         *)
(* Each thread has a stack of code positions (labels); a property access   *)
(* pushes the lru_cache wrapper of the property, which either returns the  *)
(* cached value or runs the body and stores its result.  The wrapper holds *)
(* no lock while the body runs, and caches nothing when the body raises.   *)
(* Steps are cut at the network and file-system calls.                     *)
(***************************************************************************)
EXTENDS Integers, Sequences, FiniteSets, TLC

\* ------------------------------------------------------------------ bounds
\* Highest root version an earlier process left in the directory.
MaxVersion == 10
\* How many versions the authority has published beyond those on disk.
MaxAhead == 2
\* Highest root version, on disk or published, in the runs with two threads.
ConcMaxVersion == 2
\* A thread starts a new top-level operation only while every endpoint has
\* been fetched fewer than this many times: in the runs of one thread, and
\* in the runs of two (where both start before the first fetch).  A read of
\* a property whose value is cached may start at any time.
MaxFetches == 2
ConcMaxFetches == 1

Callers == {"t1", "t2"}

\* ------------------------------------------------------------- documents
\* A signed document, reduced to what the code and the verification library
\* read: its kind, signed.version, who signed it, and the key it delegates to
\* (a root delegates the key_mgr key, a key-manager the pkg_mgr key).
NoDoc == [kind |-> "none", version |-> 0, signer |-> "-", delegate |-> "-"]

\* The content of a file that write_metadata_to_file has opened for writing
\* and not written yet: not a document.
BeingWritten == [kind |-> "partial", version |-> 0, signer |-> "-", delegate |-> "-"]

\* The root authority rotates the key_mgr key from this root version on.
KmKeyOf(v) == IF v < 3 THEN "kmkey1" ELSE "kmkey2"

RootDoc(v, signer) ==
  [kind |-> "root", version |-> v, signer |-> signer, delegate |-> KmKeyOf(v)]

KmDoc(signer, pkgKey) ==
  [kind |-> "key_mgr", version |-> 0, signer |-> signer, delegate |-> pkgKey]

\* The root embedded in the program (conda/trust/constants.py, version 1).
INITIAL_TRUST_ROOT == RootDoc(1, "rootkey")

\* conda_content_trust.authentication.verify_root(trusted, untrusted):
\* the new root is signed by the root keys and is the next version.
verify_root(trusted, untrusted) ==
  /\ untrusted.kind = "root"
  /\ untrusted.signer = "rootkey"
  /\ untrusted.version = trusted.version + 1

\* (a delegation check against the built-in root, whatever root it is given)
verify_delegation_BuiltIn(untrusted, trusted) ==
  /\ trusted.kind # "none"
  /\ untrusted.signer = KmKeyOf(1)

\* (a delegation check that accepts any key the authority has ever delegated,
\* also one the trusted root does not name)
verify_delegation_AnyDelegatedKey(untrusted, trusted) ==
  /\ trusted.kind # "none"
  /\ untrusted.signer \in {KmKeyOf(1), KmKeyOf(3)}

\* (a delegation check that accepts any document)
verify_delegation_Any(untrusted, trusted) == trusted.kind # "none"

\* conda_content_trust.authentication.verify_delegation(role, untrusted,
\* trusted): the document is signed by the key `trusted` delegates.
verify_delegation(untrusted, trusted) ==
  /\ trusted.kind # "none"
  /\ untrusted.signer = trusted.delegate

\* ------------------------------------------------------------ file names
\* A file name <stem>.root.json is its stem, a sequence of character codes.
Dot == <<46>>
IsDigit(ch) == ch >= 48 /\ ch <= 57

\* f"{n}": the decimal digits of n.
RECURSIVE ToStr(_)
ToStr(n) == IF n < 10 THEN <<48 + n>> ELSE ToStr(n \div 10) \o <<48 + (n % 10)>>

\* int(basename(path).split(".")[0]) raises ValueError on a non-digit.
IsInt(stem) == Len(stem) > 0 /\ \A i \in 1..Len(stem) : IsDigit(stem[i])

RECURSIVE ParseInt(_)
ParseInt(stem) ==
  IF Len(stem) = 0 THEN 0
  ELSE 10 * ParseInt(SubSeq(stem, 1, Len(stem) - 1)) + (stem[Len(stem)] - 48)

\* Python's str comparison of <a>.root.json and <b>.root.json.
RECURSIVE StrLess(_, _)
StrLess(a, b) ==
  IF Len(a) = 0 THEN Len(b) > 0
  ELSE IF Len(b) = 0 THEN FALSE
  ELSE IF a[1] # b[1] THEN a[1] < b[1]
  ELSE StrLess(Tail(a), Tail(b))

PathLess(a, b) == StrLess(a \o Dot, b \o Dot)

\* The comparison sorted() applies to the globbed paths.
SortKeyLess(a, b) == PathLess(a, b)

\* sorted(glob(...), reverse=True)
RECURSIVE SortedReverse(_)
SortedReverse(S) ==
  IF S = {} THEN <<>>
  ELSE LET m == CHOOSE x \in S : \A y \in S : y = x \/ SortKeyLess(y, x)
       IN <<m>> \o SortedReverse(S \ {m})

\* glob("[0-9]*.root.json"): the names that start with a digit.
Glob(stems) == {s \in stems : Len(s) > 0 /\ IsDigit(s[1])}

\* The for/else loop of lines 89-105: the first path whose prefix parses.
RECURSIVE FirstParsable(_)
FirstParsable(paths) ==
  IF Len(paths) = 0 THEN <<>>
  ELSE IF IsInt(Head(paths)) THEN Head(paths)
  ELSE FirstParsable(Tail(paths))

\* A stem that globs but does not parse: "1a".
JunkStem == <<49, 97>>


\* --------------------------------------------------------------- fetcher
\* What the transport gives for one GET: a transport exception raised by
\* session.get, or a response with a status and a body.
Response(doc) == [net |-> "ok", status |-> 200, json |-> TRUE, doc |-> doc]
StatusResponse(code) == [net |-> "ok", status |-> code, json |-> TRUE, doc |-> NoDoc]
NonJsonResponse == [net |-> "ok", status |-> 200, json |-> FALSE, doc |-> NoDoc]
TransportError(e) == [net |-> e, status |-> 0, json |-> FALSE, doc |-> NoDoc]

\* Failures any single GET may meet, whatever the authority has published.
Faults ==
  { StatusResponse(404), StatusResponse(500), NonJsonResponse,
    TransportError("ConnectionError"), TransportError("Timeout") }

\* resp.raise_for_status()
RaisesForStatus(raw) == raw.status >= 400

\* _fetch_channel_signing_data: what the caller gets, a document or an
\* exception (exc = "" when none).
FetchChannelSigningData(raw) ==
  IF raw.net # "ok" THEN [exc |-> raw.net, status |-> 0, doc |-> NoDoc]
  ELSE IF RaisesForStatus(raw)
    THEN [exc |-> "HTTPError", status |-> raw.status, doc |-> NoDoc]
  ELSE IF ~raw.json THEN [exc |-> "ValueError", status |-> raw.status, doc |-> NoDoc]
  ELSE [exc |-> "", status |-> raw.status, doc |-> raw.doc]

\* ----------------------------------------------------------------- state
VARIABLES
  cfg,          \* context: extra_safety_checks, signing_metadata_url_base, conda_content_trust importable
  dirExists,    \* isdir(context.av_data_dir)
  rootDisk,     \* stem -> document, the <stem>.root.json files of the directory
  kmDisk,       \* the content of key_mgr.json, NoDoc when the file is missing
  remoteTop,    \* the highest root version the signing authority has published
  active,       \* the host threads that run
  cacheEnabled, \* lru_cache of enabled
  cacheRoot,    \* lru_cache of trusted_root
  cacheKm,      \* lru_cache of key_mgr
  stack,        \* per thread: the code positions, innermost last
  op,           \* per thread: the top-level operation it runs or ran last
  ret,          \* per thread: what the last returning frame returned or raised
  rootL,        \* per thread: the locals of trusted_root, and a record of its run
  kmL,          \* per thread: the locals of key_mgr, and a record of its run
  callL,        \* per thread: the arguments of __call__
  rootFetches,  \* version -> number of GETs of <version>.root.json
  kmFetches,    \* number of GETs of key_mgr.json
  rootWriters,  \* version -> the threads that wrote <version>.root.json
  kmWriters,    \* the threads that wrote key_mgr.json
  enL,          \* per thread: which line of enabled decided its last run
  firstRet,     \* property -> the first value a read of it returned
  later,        \* per thread: its operation began after that first return
  exchange,     \* the last request of the fetcher run on its own, with its answer and outcome
  vouched       \* the key-manager documents that passed line 155, each with the root it was checked against

vars ==
  << cfg, dirExists, rootDisk, kmDisk, remoteTop, active, cacheEnabled,
     cacheRoot, cacheKm, stack, op, ret, rootL, kmL, callL, rootFetches,
     kmFetches, rootWriters, kmWriters, enL, firstRet, later,
     exchange, vouched >>

Versions == 1..(MaxVersion + MaxAhead + 1)

\* What the authority serves for <v>.root.json, or what a fault or a
\* tampering mirror puts in its place.
RootResponses(v) ==
  (IF v <= remoteTop THEN {Response(RootDoc(v, "rootkey"))} ELSE {})
    \cup Faults \cup {Response(RootDoc(v, "evil"))}

\* The published key-manager document is signed with the key the newest
\* root delegates.
PublishedKm == KmDoc(KmKeyOf(remoteTop), "pkgkey1")
KmResponses == {Response(PublishedKm)} \cup Faults \cup {Response(KmDoc("evil", "evilkey"))}

\* A key_mgr.json left by an earlier process.
OldKm == KmDoc("kmkey1", "pkgkey0")

\* The package a call is about, and another package of the same index.
Target == "foo.tar.bz2"
Other == "bar.tar.bz2"
Filenames == {Target, Other}
\* A signature set, reduced to the key that made it ("malformed": not a
\* signature set the library can read).
SigValues == {"pkgkey1", "pkgkey0", "forged", "malformed"}
\* signatures: a map from some file names to their signature sets.
SignatureMaps ==
  {m \in UNION {[D -> SigValues] : D \in SUBSET Filenames} :
     Other \in DOMAIN m => m[Other] \in {"pkgkey1", "forged"}}
\* The maps the calls of the two-thread runs are given.
ConcSignatureMaps ==
  {m \in SignatureMaps : DOMAIN m \subseteq {Target} /\ \A f \in DOMAIN m : m[f] \in {"pkgkey1", "forged"}}

TRUSTED == "(INFO: package metadata is signed by Anaconda and trusted)"
WARNING == "(WARNING: metadata signature verification failed)"

NoRet == [exc |-> "", doc |-> NoDoc, bool |-> FALSE]
\* No request made yet.
NoExchange == [filename |-> "-", etag |-> "-", mod_stamp |-> "-",
               headers |-> [h \in {} |-> "-"], raw |-> TransportError("-"),
               out |-> [exc |-> "-", status |-> 0, doc |-> NoDoc]]
\* The memoized properties, and the mark of one no read has returned from yet.
Properties == {"enabled", "trusted_root", "key_mgr"}
Unreturned == [exc |-> "unreturned", doc |-> NoDoc, bool |-> FALSE]
NoRootL ==
  [trusted |-> NoDoc, untrusted |-> NoDoc, scanned |-> {}, start |-> NoDoc,
   fetched |-> <<>>, results |-> <<>>, wrote |-> <<>>, done |-> FALSE,
   result |-> NoDoc]
NoKmL ==
  [trusted |-> NoDoc, untrusted |-> NoDoc, fetchExc |-> "-", root |-> NoDoc,
   onDisk |-> NoDoc, state |-> "none", result |-> NoDoc]
\* No envelope built.
NoEnvelope == [signatures |-> "-", signed |-> [payload |-> "-", status |-> "absent"]]
NoCallL ==
  [info |-> [payload |-> "-", status |-> "absent"], fn |-> "-",
   sigs |-> [f \in {} |-> "-"], gate |-> "-", km |-> NoDoc,
   before |-> [payload |-> "-", status |-> "absent"], envelope |-> NoEnvelope]

DiskWith(hi, junk) ==
  [s \in {ToStr(k) : k \in 2..hi} \cup (IF junk THEN {JunkStem} ELSE {}) |->
     IF IsInt(s) THEN RootDoc(ParseInt(s), "rootkey") ELSE NoDoc]

\* The directories and servers a run starts from: an earlier process left
\* the files 2..hi, all published, and the authority is at most MaxAhead
\* versions further.  A file that globs but does not parse is among them
\* in the runs of one thread.
DiskTops(threads) == 1..(IF threads = Callers THEN ConcMaxVersion ELSE MaxVersion)
RemoteTops(threads, hi) ==
  IF threads = Callers THEN hi..ConcMaxVersion ELSE hi..(hi + MaxAhead)

ConfigOn == cfg.safety /\ cfg.url /\ cfg.cct

\* The directory is written by this resolver only: a key_mgr.json found at
\* the start was written at line 165 by an earlier process, after line 155
\* had checked it against the root that process trusted (one that delegates
\* the key the document is signed with).
EarlierVouched(disk) ==
  IF disk = NoDoc THEN {}
  ELSE {[doc |-> disk, root |-> IF disk.signer = KmKeyOf(1) THEN INITIAL_TRUST_ROOT
                                ELSE RootDoc(3, "rootkey")]}

Init ==
  /\ active \in {{"t1"}, Callers}
  /\ cfg \in [safety : BOOLEAN, url : BOOLEAN, cct : BOOLEAN]
  /\ dirExists \in BOOLEAN
  /\ \E hi \in DiskTops(active), junk \in BOOLEAN :
       /\ rootDisk = DiskWith(IF dirExists THEN hi ELSE 1,
                              dirExists /\ junk /\ active # Callers)
       /\ remoteTop \in RemoteTops(active, hi)
  /\ kmDisk \in {NoDoc, OldKm}
  /\ ~dirExists => kmDisk = NoDoc
  \* with the gate closed by configuration nothing reads the server or the disk
  /\ ~ConfigOn => (remoteTop = 1 /\ DOMAIN rootDisk = {} /\ kmDisk = NoDoc)
  /\ cacheEnabled = [set |-> FALSE, val |-> FALSE]
  /\ cacheRoot = [set |-> FALSE, doc |-> NoDoc]
  /\ cacheKm = [set |-> FALSE, doc |-> NoDoc]
  /\ stack = [c \in Callers |-> <<>>]
  /\ op = [c \in Callers |-> "none"]
  /\ ret = [c \in Callers |-> NoRet]
  /\ rootL = [c \in Callers |-> NoRootL]
  /\ kmL = [c \in Callers |-> NoKmL]
  /\ callL = [c \in Callers |-> NoCallL]
  /\ enL = [c \in Callers |-> "-"]
  /\ rootFetches = [v \in Versions |-> 0]
  /\ kmFetches = 0
  /\ rootWriters = [v \in Versions |-> {}]
  /\ kmWriters = {}
  /\ firstRet = [p \in Properties |-> Unreturned]
  /\ later = [c \in Callers |-> FALSE]
  /\ exchange = NoExchange
  /\ vouched = EarlierVouched(kmDisk)

\* ------------------------------------------------------------ stack moves
Idle(c) == stack[c] = <<>>
Top(c) == stack[c][Len(stack[c])]
At(c, label) == c \in active /\ ~Idle(c) /\ Top(c) = label
Below(c) == SubSeq(stack[c], 1, Len(stack[c]) - 1)

Goto(c, label) == stack' = [stack EXCEPT ![c] = Below(c) \o <<label>>]
\* the frame waits at `label` for the property whose wrapper is `callee`
Access(c, label, callee) == stack' = [stack EXCEPT ![c] = Below(c) \o <<label, callee>>]
Return(c, r) ==
  /\ stack' = [stack EXCEPT ![c] = Below(c)]
  /\ ret' = [ret EXCEPT ![c] = r]
Value(d) == [exc |-> "", doc |-> d, bool |-> FALSE]
Bool(b) == [exc |-> "", doc |-> NoDoc, bool |-> b]
Raise(e) == [exc |-> e, doc |-> NoDoc, bool |-> FALSE]

\* `firstRet` once a read of property p has returned r.
Settled(p, r) == IF firstRet[p] = Unreturned THEN [firstRet EXCEPT ![p] = r] ELSE firstRet

FetchBudget == IF active = Callers THEN ConcMaxFetches ELSE MaxFetches
Budget == kmFetches < FetchBudget /\ \A v \in Versions : rootFetches[v] < FetchBudget

diskVars == <<dirExists, rootDisk, kmDisk>>
envVars == <<cfg, remoteTop, active>>
cacheVars == <<cacheEnabled, cacheRoot, cacheKm>>
localVars == <<rootL, kmL, callL, enL>>
countVars == <<rootFetches, kmFetches, rootWriters, kmWriters>>


\* ------------------------------------------------- the host's operations
\* A new operation starts with fresh locals.  The locals of trusted_root and
\* key_mgr, with the record of the run, are kept from the return of the
\* body until the caller has taken the result.
Fresh(c) ==
  /\ ret' = [ret EXCEPT ![c] = NoRet]
  /\ rootL' = [rootL EXCEPT ![c] = NoRootL]
  /\ kmL' = [kmL EXCEPT ![c] = NoKmL]
  /\ callL' = [callL EXCEPT ![c] = NoCallL]
  /\ enL' = [enL EXCEPT ![c] = "-"]

\* A thread reads signature_verification.enabled.
CallEnabled(c) ==
  /\ c \in active /\ Idle(c) /\ (Budget \/ cacheEnabled.set)
  /\ stack' = [stack EXCEPT ![c] = <<"e_enter">>]
  /\ op' = [op EXCEPT ![c] = "enabled"]
  /\ Fresh(c)
  /\ UNCHANGED <<diskVars, envVars, cacheVars, countVars>>
  /\ later' = [later EXCEPT ![c] = firstRet["enabled"] # Unreturned]
  /\ UNCHANGED firstRet
  /\ UNCHANGED <<exchange, vouched>>

\* A thread reads signature_verification.trusted_root.  The body uses names
\* of conda_content_trust and the base URL, so it is read only where the
\* configuration provides them.
CallTrustedRoot(c) ==
  /\ c \in active /\ Idle(c) /\ (Budget \/ cacheRoot.set) /\ ConfigOn
  /\ stack' = [stack EXCEPT ![c] = <<"r_enter">>]
  /\ op' = [op EXCEPT ![c] = "trusted_root"]
  /\ Fresh(c)
  /\ UNCHANGED <<diskVars, envVars, cacheVars, countVars>>
  /\ later' = [later EXCEPT ![c] = firstRet["trusted_root"] # Unreturned]
  /\ UNCHANGED firstRet
  /\ UNCHANGED <<exchange, vouched>>

\* A thread reads signature_verification.key_mgr.
CallKeyMgr(c) ==
  /\ c \in active /\ Idle(c) /\ (Budget \/ cacheKm.set) /\ ConfigOn
  /\ stack' = [stack EXCEPT ![c] = <<"k_enter">>]
  /\ op' = [op EXCEPT ![c] = "key_mgr"]
  /\ Fresh(c)
  /\ UNCHANGED <<diskVars, envVars, cacheVars, countVars>>
  /\ later' = [later EXCEPT ![c] = firstRet["key_mgr"] # Unreturned]
  /\ UNCHANGED firstRet
  /\ UNCHANGED <<exchange, vouched>>

\* A thread calls signature_verification(info, fn, signatures); line 232
\* reads self.enabled first, and the arguments are read only after it has
\* returned, where VerifyAfterEnabled draws them.
CallVerify(c) ==
  /\ c \in active /\ Idle(c) /\ Budget
  /\ stack' = [stack EXCEPT ![c] = <<"c_enabled_ret", "e_enter">>]
  /\ op' = [op EXCEPT ![c] = "verify"]
  /\ Fresh(c)
  /\ UNCHANGED <<diskVars, envVars, cacheVars, countVars>>
  /\ later' = [later EXCEPT ![c] = FALSE]
  /\ UNCHANGED firstRet
  /\ UNCHANGED <<exchange, vouched>>

\* ---------------------------------------------------------------- enabled
\* lru_cache wrapper of enabled (lines 36-38).
EnabledLookup(c) ==
  /\ At(c, "e_enter")
  /\ IF cacheEnabled.set
       THEN Return(c, Bool(cacheEnabled.val)) /\ enL' = [enL EXCEPT ![c] = "cached"]
       ELSE Goto(c, "e_check") /\ UNCHANGED <<ret, enL>>
  /\ UNCHANGED <<diskVars, envVars, cacheVars, op, rootL, kmL, callL, countVars>>
  /\ UNCHANGED <<firstRet, later>>
  /\ UNCHANGED <<exchange, vouched>>

\* (a gate that does not ask for the base URL)
ConfigCheck_NoUrlCheck(k) ==
  IF ~k.safety THEN "safety_checks_off"
  ELSE IF ~k.cct THEN "not_installed"
  ELSE ""

\* The three configuration checks of lines 40-59: "" when all pass, else
\* the one that returns False.
ConfigCheck(k) ==
  IF ~k.safety THEN "safety_checks_off"
  ELSE IF ~k.url THEN "no_url_base"
  ELSE IF ~k.cct THEN "not_installed"
  ELSE ""

\* Lines 40-62: the configuration checks, then isdir(av_data_dir).
EnabledChecks(c) ==
  /\ At(c, "e_check")
  /\ IF ConfigCheck(cfg) # ""
       THEN /\ Return(c, Bool(FALSE))
            /\ cacheEnabled' = [set |-> TRUE, val |-> FALSE]
            /\ enL' = [enL EXCEPT ![c] = ConfigCheck(cfg)]
       ELSE /\ IF dirExists THEN Access(c, "e_root_ret", "r_enter")
                            ELSE Goto(c, "e_mkdir")
            /\ UNCHANGED <<ret, cacheEnabled, enL>>
  /\ UNCHANGED <<diskVars, envVars, cacheRoot, cacheKm, op, rootL, kmL, callL, countVars>>
  /\ firstRet' = IF ConfigCheck(cfg) # "" THEN Settled("enabled", Bool(FALSE)) ELSE firstRet
  /\ UNCHANGED later
  /\ UNCHANGED <<exchange, vouched>>

\* Lines 63-67: makedirs(av_data_dir), which raises when the directory has
\* appeared since the isdir check; then self.trusted_root is read.
EnabledMakedirs(c) ==
  /\ At(c, "e_mkdir")
  /\ IF dirExists
       THEN /\ Return(c, Raise("FileExistsError"))
            /\ enL' = [enL EXCEPT ![c] = "makedirs_raised"]
            /\ UNCHANGED dirExists
       ELSE /\ dirExists' = TRUE
            /\ Access(c, "e_root_ret", "r_enter")
            /\ UNCHANGED <<ret, enL>>
  /\ UNCHANGED <<rootDisk, kmDisk, envVars, cacheVars, op, rootL, kmL, callL, countVars>>
  /\ UNCHANGED <<firstRet, later>>
  /\ UNCHANGED <<exchange, vouched>>

\* Lines 67-74: trusted_root has returned or raised; key_mgr is read next.
EnabledAfterRoot(c) ==
  /\ At(c, "e_root_ret")
  /\ IF ret[c].exc # ""
       THEN /\ Return(c, ret[c])
            /\ enL' = [enL EXCEPT ![c] = "trusted_root_raised"]
            /\ UNCHANGED cacheEnabled
       ELSE IF ret[c].doc = NoDoc
         THEN /\ Return(c, Bool(FALSE))
              /\ cacheEnabled' = [set |-> TRUE, val |-> FALSE]
              /\ enL' = [enL EXCEPT ![c] = "no_trusted_root"]
         ELSE /\ Access(c, "e_km_ret", "k_enter")
              /\ UNCHANGED <<ret, cacheEnabled, enL>>
  /\ rootL' = [rootL EXCEPT ![c] = NoRootL]
  /\ UNCHANGED <<diskVars, envVars, cacheRoot, cacheKm, op, kmL, callL, countVars>>
  /\ firstRet' = IF ret[c].exc = "" /\ ret[c].doc = NoDoc
                THEN Settled("enabled", Bool(FALSE)) ELSE firstRet
  /\ UNCHANGED later
  /\ UNCHANGED <<exchange, vouched>>

\* The gate's answer once key_mgr has returned (lines 74-79).
GateResult(km) == km # NoDoc

\* Lines 74-79: key_mgr has returned or raised.
EnabledAfterKm(c) ==
  /\ At(c, "e_km_ret")
  /\ IF ret[c].exc # ""
       THEN /\ Return(c, ret[c])
            /\ enL' = [enL EXCEPT ![c] = "key_mgr_raised"]
            /\ UNCHANGED cacheEnabled
       ELSE /\ Return(c, Bool(GateResult(ret[c].doc)))
            /\ cacheEnabled' = [set |-> TRUE, val |-> GateResult(ret[c].doc)]
            /\ enL' = [enL EXCEPT ![c] =
                 IF GateResult(ret[c].doc) THEN "enabled" ELSE "no_key_mgr"]
  /\ kmL' = [kmL EXCEPT ![c] = NoKmL]
  /\ UNCHANGED <<diskVars, envVars, cacheRoot, cacheKm, op, rootL, callL, countVars>>
  /\ firstRet' = IF ret[c].exc = ""
                THEN Settled("enabled", Bool(GateResult(ret[c].doc))) ELSE firstRet
  /\ UNCHANGED later
  /\ UNCHANGED <<exchange, vouched>>

\* ----------------------------------------------------------- trusted_root
\* lru_cache wrapper of trusted_root (lines 82-84).
RootLookup(c) ==
  /\ At(c, "r_enter")
  /\ IF cacheRoot.set
       THEN Return(c, Value(cacheRoot.doc))
       ELSE Goto(c, "r_scan") /\ UNCHANGED ret
  /\ UNCHANGED <<diskVars, envVars, cacheVars, op, localVars, countVars>>
  /\ UNCHANGED <<firstRet, later>>
  /\ UNCHANGED <<exchange, vouched>>

\* (a resolver that starts from nothing when the directory holds no root)
StartingRoot_NoBuiltIn(disk) ==
  LET first == FirstParsable(SortedReverse(Glob(DOMAIN disk)))
  IN IF first = <<>> THEN NoDoc ELSE disk[first]

\* Lines 86-105: the candidate the refresh loop starts from.
StartingRoot(disk) ==
  LET first == FirstParsable(SortedReverse(Glob(DOMAIN disk)))
  IN IF first = <<>> THEN INITIAL_TRUST_ROOT ELSE disk[first]

RootScan(c) ==
  /\ At(c, "r_scan")
  /\ IF StartingRoot(rootDisk) = BeingWritten
       THEN \* line 99: load_metadata_from_file raises on a file that is no JSON yet
            /\ rootL' = [rootL EXCEPT ![c] = [NoRootL EXCEPT !.scanned = DOMAIN rootDisk]]
            /\ Return(c, Raise("ValueError"))
       ELSE /\ rootL' = [rootL EXCEPT ![c] =
                 [NoRootL EXCEPT !.trusted = StartingRoot(rootDisk),
                                 !.start = StartingRoot(rootDisk),
                                 !.scanned = DOMAIN rootDisk]]
            /\ Goto(c, "r_fetch")
            /\ UNCHANGED ret
  /\ UNCHANGED <<diskVars, envVars, cacheVars, op, kmL, callL, enL, countVars>>
  /\ UNCHANGED <<firstRet, later>>
  /\ UNCHANGED <<exchange, vouched>>

\* (a loop that steps by two)
NextVersion_Skip(trusted) == trusted.version + 2

\* Line 111: the version the loop asks for next.
NextVersion(trusted) == trusted.version + 1

\* (a loop that goes on after a server error)
RootAccepts_PastServerError(trusted, fetched) ==
  \/ fetched.exc = "" /\ verify_root(trusted, fetched.doc)
  \/ fetched.exc = "HTTPError" /\ fetched.status = 500

\* (a loop that checks the version of the fetched document, not who signed it)
RootAccepts_AnySigner(trusted, fetched) ==
  fetched.exc = "" /\ fetched.doc.version = trusted.version + 1

\* (a loop that adopts whatever document the fetch returned)
RootAccepts_Unverified(trusted, fetched) == fetched.exc = ""

\* Lines 114-134: the loop goes on only when the fetch returned a document
\* and verify_root accepted it; both except clauses end the loop.
RootAccepts(trusted, fetched) ==
  fetched.exc = "" /\ verify_root(trusted, fetched.doc)

\* What one turn of the loop met, for the record of the run.
RootTurn(trusted, fetched) ==
  IF fetched.exc = "HTTPError" /\ fetched.status = 404 THEN "not_found"
  ELSE IF fetched.exc # "" THEN fetched.exc
  ELSE IF verify_root(trusted, fetched.doc) THEN "ok"
  ELSE "verify_failed"

\* Lines 109-131 and 137: one fetch of the refresh loop; when it fails the
\* loop ends, trusted_root returns and the wrapper stores the result.
RootFetch(c, raw) ==
  /\ At(c, "r_fetch")
  /\ LET L == rootL[c]
         v == NextVersion(L.trusted)
         f == FetchChannelSigningData(raw)
         seen == [L EXCEPT !.fetched = Append(@, v),
                           !.results = Append(@, RootTurn(L.trusted, f))]
     IN /\ v \in Versions
        /\ raw \in RootResponses(v)
        /\ rootFetches' = [rootFetches EXCEPT ![v] = @ + 1]
        /\ IF RootAccepts(L.trusted, f)
             THEN /\ rootL' = [rootL EXCEPT ![c] = [seen EXCEPT !.untrusted = f.doc]]
                  /\ Goto(c, "r_write")
                  /\ UNCHANGED <<ret, cacheRoot>>
             ELSE /\ rootL' = [rootL EXCEPT ![c] =
                       [seen EXCEPT !.done = TRUE, !.result = L.trusted]]
                  /\ cacheRoot' = [set |-> TRUE, doc |-> L.trusted]
                  /\ Return(c, Value(L.trusted))
  /\ UNCHANGED <<diskVars, envVars, cacheEnabled, cacheKm, op, kmL, callL, enL,
                 kmFetches, rootWriters, kmWriters>>
  /\ firstRet' = IF RootAccepts(rootL[c].trusted, FetchChannelSigningData(raw))
                THEN firstRet ELSE Settled("trusted_root", Value(rootL[c].trusted))
  /\ UNCHANGED later
  /\ UNCHANGED <<exchange, vouched>>

\* Lines 134-135: adopt the verified document and open <version>.root.json
\* for writing, which raises when the directory does not exist; from here
\* until the content is written the file is there and holds no document.
RootWrite(c) ==
  /\ At(c, "r_write")
  /\ LET L == rootL[c]
         v == L.untrusted.version
         name == ToStr(NextVersion(L.trusted))
     IN IF ~dirExists
          THEN /\ Return(c, Raise("FileNotFoundError"))
               /\ rootL' = [rootL EXCEPT ![c].trusted = L.untrusted]
               /\ UNCHANGED <<rootDisk, rootWriters>>
          ELSE /\ rootDisk' = [s \in DOMAIN rootDisk \cup {name} |->
                                 IF s = name THEN BeingWritten ELSE rootDisk[s]]
               /\ rootWriters' = [rootWriters EXCEPT ![v] = @ \cup {c}]
               /\ rootL' = [rootL EXCEPT ![c].trusted = L.untrusted,
                                         ![c].wrote = Append(@, v)]
               /\ Goto(c, "r_write_end")
               /\ UNCHANGED ret
  /\ UNCHANGED <<dirExists, kmDisk, envVars, cacheVars, op, kmL, callL, enL,
                 rootFetches, kmFetches, kmWriters>>
  /\ UNCHANGED <<firstRet, later>>
  /\ UNCHANGED <<exchange, vouched>>

\* Line 135, the rest of write_metadata_to_file: the content is written and
\* the file closed; the loop goes on to the next version.
RootWriteEnd(c) ==
  /\ At(c, "r_write_end")
  /\ LET name == ToStr(rootL[c].trusted.version)
     IN rootDisk' = [s \in DOMAIN rootDisk \cup {name} |->
                       IF s = name THEN rootL[c].trusted ELSE rootDisk[s]]
  /\ Goto(c, "r_fetch")
  /\ UNCHANGED <<dirExists, kmDisk, envVars, cacheVars, op, ret, localVars,
                 countVars, firstRet, later, exchange, vouched>>

\* ---------------------------------------------------------------- key_mgr
\* lru_cache wrapper of key_mgr (lines 140-143).
KmLookup(c) ==
  /\ At(c, "k_enter")
  /\ IF cacheKm.set
       THEN Return(c, Value(cacheKm.doc)) /\ UNCHANGED kmL
       ELSE /\ Goto(c, "k_fetch")
            /\ kmL' = [kmL EXCEPT ![c] = [NoKmL EXCEPT !.state = "running"]]
            /\ UNCHANGED ret
  /\ UNCHANGED <<diskVars, envVars, cacheVars, op, rootL, callL, enL, countVars>>
  /\ UNCHANGED <<firstRet, later>>
  /\ UNCHANGED <<exchange, vouched>>

\* (a resolver that falls back whatever the exception)
FallsBack_Any(exc) == TRUE

\* Line 156: the exceptions key_mgr takes as "unavailable from server".
FallsBack(exc) == exc \in {"ConnectionError", "HTTPError"}

\* Lines 149-161: the fetch of key_mgr.json.  With a document in hand line
\* 155 reads self.trusted_root; a ConnectionError or HTTPError leads to the
\* disk fallback; any other exception is re-raised.
KmFetch(c, raw) ==
  /\ At(c, "k_fetch")
  /\ raw \in KmResponses
  /\ kmFetches' = kmFetches + 1
  /\ LET f == FetchChannelSigningData(raw)
     IN IF f.exc = ""
          THEN /\ kmL' = [kmL EXCEPT ![c].untrusted = f.doc, ![c].fetchExc = ""]
               /\ Access(c, "k_root_ret", "r_enter")
               /\ UNCHANGED ret
          ELSE IF FallsBack(f.exc)
            THEN /\ kmL' = [kmL EXCEPT ![c].fetchExc = f.exc]
                 /\ Goto(c, "k_fallback")
                 /\ UNCHANGED ret
            ELSE /\ kmL' = [kmL EXCEPT ![c].fetchExc = f.exc, ![c].state = "raised"]
                 /\ Return(c, Raise(f.exc))
  /\ UNCHANGED <<diskVars, envVars, cacheVars, op, rootL, callL, enL,
                 rootFetches, rootWriters, kmWriters>>
  /\ UNCHANGED <<firstRet, later>>
  /\ UNCHANGED <<exchange, vouched>>

\* Lines 155-161: trusted_root has returned or raised inside the try;
\* verify_delegation("key_mgr", untrusted, trusted_root) raises on a document
\* the root does not vouch for.
KmAfterRoot(c) ==
  /\ At(c, "k_root_ret")
  /\ LET exc == IF ret[c].exc # "" THEN ret[c].exc
                ELSE IF verify_delegation(kmL[c].untrusted, ret[c].doc) THEN ""
                ELSE "SignatureError"
     IN IF exc = ""
          THEN /\ kmL' = [kmL EXCEPT ![c].root = ret[c].doc]
               /\ vouched' = vouched \cup {[doc |-> kmL[c].untrusted, root |-> ret[c].doc]}
               /\ Goto(c, "k_write")
               /\ UNCHANGED ret
          ELSE IF FallsBack(exc)
            THEN /\ kmL' = [kmL EXCEPT ![c].root = ret[c].doc]
                 /\ Goto(c, "k_fallback")
                 /\ UNCHANGED <<ret, vouched>>
            ELSE /\ kmL' = [kmL EXCEPT ![c].root = ret[c].doc, ![c].state = "raised"]
                 /\ Return(c, Raise(exc))
                 /\ UNCHANGED vouched
  /\ rootL' = [rootL EXCEPT ![c] = NoRootL]
  /\ UNCHANGED <<diskVars, envVars, cacheVars, op, callL, enL, countVars>>
  /\ UNCHANGED <<firstRet, later>>
  /\ UNCHANGED exchange

\* Lines 162-165: the fetched document checks out and is written.
KmWrite(c) ==
  /\ At(c, "k_write")
  /\ IF ~dirExists
       THEN /\ Return(c, Raise("FileNotFoundError"))
            /\ kmL' = [kmL EXCEPT ![c].trusted = kmL[c].untrusted, ![c].state = "raised"]
            /\ UNCHANGED <<kmDisk, kmWriters>>
       ELSE /\ kmDisk' = kmL[c].untrusted
            /\ kmWriters' = kmWriters \cup {c}
            /\ kmL' = [kmL EXCEPT ![c].trusted = kmL[c].untrusted]
            /\ Goto(c, "k_fallback")
            /\ UNCHANGED ret
  /\ UNCHANGED <<dirExists, rootDisk, envVars, cacheVars, op, rootL, callL, enL,
                 rootFetches, kmFetches, rootWriters>>
  /\ UNCHANGED <<firstRet, later>>
  /\ UNCHANGED <<exchange, vouched>>

\* (a resolver without the fallback)
KmResult_NoFallback(trusted, disk) == trusted

\* Lines 168-169: the copy on disk is loaded when nothing came from the server.
KmResult(trusted, disk) == IF trusted = NoDoc /\ disk # NoDoc THEN disk ELSE trusted

\* Lines 167-169: the fallback, which reads key_mgr.json when nothing came
\* from the server.
KmFallback(c) ==
  /\ At(c, "k_fallback")
  /\ kmL' = [kmL EXCEPT ![c].onDisk = kmDisk,
                        ![c].result = KmResult(kmL[c].trusted, kmDisk)]
  /\ Goto(c, "k_return")
  /\ UNCHANGED <<diskVars, envVars, cacheVars, op, ret, rootL, callL, enL, countVars>>
  /\ UNCHANGED <<firstRet, later, exchange, vouched>>

\* Line 171 and the wrapper (lines 140-142): key_mgr returns and the result
\* is stored.
KmReturn(c) ==
  /\ At(c, "k_return")
  /\ kmL' = [kmL EXCEPT ![c].state = "returned"]
  /\ cacheKm' = [set |-> TRUE, doc |-> kmL[c].result]
  /\ Return(c, Value(kmL[c].result))
  /\ firstRet' = Settled("key_mgr", Value(kmL[c].result))
  /\ UNCHANGED <<diskVars, envVars, cacheEnabled, cacheRoot, op, rootL, callL, enL, countVars>>
  /\ UNCHANGED <<later, exchange, vouched>>

\* --------------------------------------------------------------- __call__
\* (a call that does not ask the gate)
PassesGate_IgnoresEnabled(isEnabled, fn, sigs) == fn \in DOMAIN sigs

\* Line 232: the call goes on only with the gate open and a signature set
\* stored under this file name.
PassesGate(isEnabled, fn, sigs) == isEnabled /\ fn \in DOMAIN sigs

\* conda_content_trust.signing.wrap_as_signable(info): a new dict around a
\* copy of the record, with no signatures yet.
wrap_as_signable(info) == [signatures |-> "-", signed |-> info]

\* (an envelope that takes the signature set of another file of the map
\* when there is one)
Envelope_OtherEntry(info, fn, sigs) ==
  [wrap_as_signable(info) EXCEPT
     !.signatures = IF Other \in DOMAIN sigs THEN sigs[Other] ELSE sigs[fn]]

\* Lines 236-237: the envelope of the record and the signature set stored
\* under the file name.
Envelope(info, fn, sigs) == [wrap_as_signable(info) EXCEPT !.signatures = sigs[fn]]

\* Lines 232-240: enabled has returned or raised; past the gate the envelope
\* is built and self.key_mgr is read.
VerifyAfterEnabled(c, fn, sigs) ==
  /\ At(c, "c_enabled_ret")
  /\ LET args == [NoCallL EXCEPT !.info = [payload |-> "meta", status |-> "absent"],
                                 !.before = [payload |-> "meta", status |-> "absent"],
                                 !.fn = fn, !.sigs = sigs]
     IN IF ret[c].exc # ""
          THEN /\ Return(c, ret[c])
               /\ callL' = [callL EXCEPT ![c] = [args EXCEPT !.gate = "raised"]]
          ELSE IF ~PassesGate(ret[c].bool, fn, sigs)
            THEN /\ Return(c, NoRet)
                 /\ callL' = [callL EXCEPT ![c] =
                      [args EXCEPT !.gate = IF ret[c].bool THEN "open" ELSE "closed"]]
            ELSE /\ Access(c, "c_km_ret", "k_enter")
                 /\ callL' = [callL EXCEPT ![c] =
                      [args EXCEPT !.gate = IF ret[c].bool THEN "open" ELSE "closed",
                                   !.envelope = Envelope(args.info, fn, sigs)]]
                 /\ UNCHANGED ret
  /\ UNCHANGED <<diskVars, envVars, cacheVars, op, enL, rootL, kmL, countVars>>
  /\ UNCHANGED <<firstRet, later>>
  /\ UNCHANGED <<exchange, vouched>>

\* verify_delegation("pkg_mgr", envelope, key_mgr) on the signature set of
\* the envelope: "" on success, else the exception.
CheckArtifact(sig, km) ==
  IF km = NoDoc THEN "TypeError"
  ELSE IF sig = "malformed" THEN "MetadataVerificationError"
  ELSE IF sig = km.delegate THEN ""
  ELSE "SignatureError"

\* (a verifier that handles every exception of the check)
Handled_Any(exc) == TRUE

\* Line 241: the one exception of the check __call__ handles.
Handled(exc) == exc = "SignatureError"

\* (a verifier that reports every package as trusted)
StatusFor_AlwaysTrusted(exc) == TRUSTED

\* Lines 241-245: the status for the outcome of the check.
StatusFor(exc) == IF exc = "SignatureError" THEN WARNING ELSE TRUSTED

\* (an annotation that puts the status in place of the record's content)
Annotate_WrongKey(info, status) == [info EXCEPT !.payload = status]

\* Line 247: info["metadata_signature_status"] = status.
Annotate(info, status) == [info EXCEPT !.status = status]

\* Lines 239-247: the delegation check and the annotation of info.
VerifyAfterKm(c) ==
  /\ At(c, "c_km_ret")
  /\ LET L == callL[c]
         exc == IF ret[c].exc # "" THEN ret[c].exc
                ELSE CheckArtifact(L.envelope.signatures, ret[c].doc)
     IN IF exc # "" /\ ~Handled(exc)
          THEN /\ Return(c, Raise(exc))
               /\ callL' = [callL EXCEPT ![c].km = ret[c].doc]
          ELSE /\ Return(c, NoRet)
               /\ callL' = [callL EXCEPT ![c].km = ret[c].doc,
                                         ![c].info = Annotate(L.info, StatusFor(exc))]
  /\ kmL' = [kmL EXCEPT ![c] = NoKmL]
  /\ UNCHANGED <<diskVars, envVars, cacheVars, op, enL, rootL, countVars>>
  /\ UNCHANGED <<firstRet, later>>
  /\ UNCHANGED <<exchange, vouched>>

\* ----------------------------------------------------------- specification
Next ==
  \E c \in Callers :
    \/ CallEnabled(c)
    \/ CallTrustedRoot(c)
    \/ CallKeyMgr(c)
    \/ CallVerify(c)
    \/ EnabledLookup(c)
    \/ EnabledChecks(c)
    \/ EnabledMakedirs(c)
    \/ EnabledAfterRoot(c)
    \/ EnabledAfterKm(c)
    \/ RootLookup(c)
    \/ RootScan(c)
    \/ \E raw \in RootResponses(NextVersion(rootL[c].trusted)) : RootFetch(c, raw)
    \/ RootWrite(c)
    \/ RootWriteEnd(c)
    \/ KmLookup(c)
    \/ \E raw \in KmResponses : KmFetch(c, raw)
    \/ KmAfterRoot(c)
    \/ KmWrite(c)
    \/ KmFallback(c)
    \/ KmReturn(c)
    \/ \E sigs \in (IF active = Callers THEN ConcSignatureMaps ELSE SignatureMaps) :
         VerifyAfterEnabled(c, Target, sigs)
    \/ VerifyAfterKm(c)

Spec == Init /\ [][Next]_vars

\* ------------------------------------------------- the fetcher on its own
\* The file names the resolvers ask for.
FetchNames == {"key_mgr.json", "2.root.json", "10.root.json"}

\* The values a caller may pass for etag and for mod_stamp: None (the
\* default of line 180), the empty string, or a validator.
None == "None"
EtagValues == {None, "", "W/\"5f3a\""}
StampValues == {None, "", "Fri, 06 Nov 2026 10:00:00 GMT"}

\* Python's truth value of an optional string, as `if etag:` takes it.
Truthy(x) == x # None /\ x # ""

\* Lines 185-188: the two headers every request carries.
FixedHeaders ==
  [h \in {"Accept-Encoding", "Content-Type"} |->
     IF h = "Accept-Encoding" THEN "gzip, deflate, compress, identity"
     ELSE "application/json"]

\* (headers whose conditional entries are driven by the other argument)
Headers_Swapped(etag, mod_stamp) ==
  [h \in DOMAIN FixedHeaders
       \cup (IF Truthy(mod_stamp) THEN {"If-None-Match"} ELSE {})
       \cup (IF Truthy(etag) THEN {"If-Modified-Since"} ELSE {}) |->
     IF h = "If-None-Match" THEN etag
     ELSE IF h = "If-Modified-Since" THEN mod_stamp
     ELSE FixedHeaders[h]]

\* Lines 185-192: the request headers; the conditional ones only with an
\* etag or a modification stamp.
Headers(etag, mod_stamp) ==
  [h \in DOMAIN FixedHeaders
       \cup (IF Truthy(etag) THEN {"If-None-Match"} ELSE {})
       \cup (IF Truthy(mod_stamp) THEN {"If-Modified-Since"} ELSE {}) |->
     IF h = "If-None-Match" THEN etag
     ELSE IF h = "If-Modified-Since" THEN mod_stamp
     ELSE FixedHeaders[h]]

\* What a server may answer: any of these statuses, with a JSON body (a
\* document) or a body that is not JSON; or the transport fails.
WireStatuses == {200, 204, 300, 304, 404, 500}
WireResponses ==
  {[net |-> "ok", status |-> st, json |-> TRUE, doc |-> d] :
      st \in WireStatuses, d \in {RootDoc(2, "rootkey"), KmDoc("kmkey1", "pkgkey1")}}
    \cup {[net |-> "ok", status |-> st, json |-> FALSE, doc |-> NoDoc] : st \in WireStatuses}
    \cup {TransportError("ConnectionError"), TransportError("Timeout")}

\* Lines 179-229: one call of _fetch_channel_signing_data.
FetchData(filename, etag, mod_stamp, raw) ==
  /\ exchange' = [filename |-> filename, etag |-> etag, mod_stamp |-> mod_stamp,
                  headers |-> Headers(etag, mod_stamp),
                  raw |-> raw, out |-> FetchChannelSigningData(raw)]
  /\ UNCHANGED <<diskVars, envVars, cacheVars, stack, op, ret, localVars,
                 countVars, firstRet, later, vouched>>

FetchInit ==
  /\ Init
  /\ active = {"t1"} /\ ConfigOn /\ dirExists
  /\ remoteTop = 1 /\ kmDisk = NoDoc /\ DOMAIN rootDisk = {}

FetchNext ==
  \E filename \in FetchNames, etag \in EtagValues, mod_stamp \in StampValues,
     raw \in WireResponses : FetchData(filename, etag, mod_stamp, raw)

FetchSpec == FetchInit /\ [][FetchNext]_vars


\* ------------------------------------------------------------ properties
V0 == INITIAL_TRUST_ROOT.version
Last(q) == q[Len(q)]
\* The run of trusted_root by thread c has returned and its record is kept.
RootReturned(c) == rootL[c].done
\* The file <v>.root.json holds a document of version v (or another thread
\* is writing it again at this moment).
OnDisk(v) ==
  /\ ToStr(v) \in DOMAIN rootDisk
  /\ rootDisk[ToStr(v)].version = v \/ rootDisk[ToStr(v)] = BeingWritten

\* C1: a resolution that scanned an empty directory, was served n verifying
\* versions after the bootstrap root and then no further one, has fetched
\* V0+1 .. V0+n+1 in this order, has written V0+1 .. V0+n in this order, each
\* file being on disk, and returns version V0+n.
C1_ChainFromEmpty ==
  \A c \in Callers :
    (RootReturned(c) /\ rootL[c].scanned = {}) =>
      LET L == rootL[c]
          n == Len(L.results) - 1
      IN ((\A i \in 1..n : L.results[i] = "ok") /\ L.results[n + 1] # "ok") =>
           /\ L.start = INITIAL_TRUST_ROOT
           /\ L.result.version = V0 + n
           /\ L.result = (IF n = 0 THEN INITIAL_TRUST_ROOT ELSE RootDoc(V0 + n, "rootkey"))
           /\ L.fetched = [i \in 1..(n + 1) |-> V0 + i]
           /\ L.wrote = [i \in 1..n |-> V0 + i]
           /\ \A i \in 1..n : OnDisk(V0 + i)

C1_Witness ==
  \E c \in Callers :
    /\ RootReturned(c) /\ rootL[c].scanned = {}
    /\ rootL[c].wrote = <<V0 + 1, V0 + 2>>
    /\ rootL[c].result.version = V0 + 2

\* C2: when the fetched version k fails verification against the trusted
\* version k-1, the loop ends there: this resolution fetches nothing after k,
\* writes no file of a version >= k, and returns version k-1 as signed by
\* the authority.
C2_HaltsAtLastVerified ==
  \A c \in Callers :
    \A i \in 1..Len(rootL[c].results) :
      rootL[c].results[i] = "verify_failed" =>
        LET L == rootL[c]
            k == L.fetched[i]
        IN /\ i = Len(L.results)
           /\ RootReturned(c)
           /\ L.result.version = k - 1
           /\ L.result.signer = "rootkey"
           /\ \A j \in 1..Len(L.wrote) : L.wrote[j] < k
           /\ \A v \in Versions : v >= k => c \notin rootWriters[v]

C2_Witness ==
  \E c \in Callers :
    /\ RootReturned(c) /\ Last(rootL[c].results) = "verify_failed"
    /\ Len(rootL[c].wrote) >= 1

\* C3: the candidate trusted_root starts from is the file of the highest
\* integer version among the scanned names whose prefix parses as an integer,
\* and the bootstrap root only when there is none.
C3_HighestIntegerVersion ==
  \A c \in Callers :
    rootL[c].start # NoDoc =>
      LET ints == {ParseInt(s) : s \in {t \in rootL[c].scanned : IsInt(t)}}
      IN IF ints = {} THEN rootL[c].start = INITIAL_TRUST_ROOT
         ELSE \A v \in ints : v <= rootL[c].start.version

\* C4: callers that resolve concurrently fetch no root version twice, and
\* all obtain the same trusted root.
C4_OneFetchPerVersion ==
  active = Callers =>
    /\ \A v \in Versions : rootFetches[v] <= 1
    /\ \A c, d \in Callers :
         (RootReturned(c) /\ RootReturned(d)) => rootL[c].result = rootL[d].result

\* C5: no file of the verification directory is written by two callers.
C5_OneWriterPerFile ==
  /\ \A v \in Versions : Cardinality(rootWriters[v]) <= 1
  /\ Cardinality(kmWriters) <= 1

\* C6: with several callers in the verifier before the trust state is
\* initialised, key_mgr.json is fetched once.
C6_OneKeyMgrFetch == active = Callers => kmFetches <= 1

\* The thread's call of the verifier has ended.
VerifyEnded(c) == Idle(c) /\ op[c] = "verify"

\* C7: with the gate open and a signature set stored under the file name,
\* the status is the trusted string when the pkg_mgr delegation check against
\* the key-manager succeeds and the warning string when it raises the
\* signature error, and in both cases the call returns without an exception.
C7_StatusFollowsCheck ==
  \A c \in Callers :
    (VerifyEnded(c) /\ callL[c].gate = "open" /\ callL[c].fn \in DOMAIN callL[c].sigs) =>
      LET L == callL[c]
          sig == L.sigs[L.fn]
          valid == L.km # NoDoc /\ sig # "malformed" /\ sig = L.km.delegate
          mismatch == L.km # NoDoc /\ sig # "malformed" /\ sig # L.km.delegate
      IN /\ valid => (L.info.status = TRUSTED /\ ret[c].exc = "")
         /\ mismatch => (L.info.status = WARNING /\ ret[c].exc = "")
         /\ L.info.payload = "meta"
         /\ cacheKm.set

C7_Witness ==
  \E c \in Callers :
    /\ VerifyEnded(c) /\ callL[c].gate = "open"
    /\ callL[c].sigs = [f \in {Target} |-> "forged"]
    /\ callL[c].info.status = WARNING
    /\ ret[c].exc = ""

\* C8: with the gate closed, or with no entry for the file name in the
\* signatures map, the record after the call is the record before it and
\* carries no status.
C8_NoOpWhenGatedOut ==
  \A c \in Callers :
    (VerifyEnded(c) /\ (callL[c].gate = "closed" \/ callL[c].fn \notin DOMAIN callL[c].sigs)) =>
      callL[c].info = [payload |-> "meta", status |-> "absent"]

C8_Witness ==
  \E c \in Callers :
    /\ VerifyEnded(c) /\ callL[c].gate = "closed"
    /\ callL[c].fn \in DOMAIN callL[c].sigs
    /\ callL[c].info.status = "absent"

\* The situations in which the gate is to answer False.
GateClosers ==
  { "safety_checks_off", "no_url_base", "not_installed", "trusted_root_raised",
    "no_trusted_root", "key_mgr_raised", "no_key_mgr" }

\* C9: when safety checks are off, no base URL is configured, the dependency
\* is missing, root resolution fails or key-manager resolution fails, enabled
\* returns False and raises nothing.
C9_GateNeverRaises ==
  \A c \in Callers :
    (Idle(c) /\ op[c] = "enabled" /\ enL[c] \in GateClosers) =>
      (ret[c].exc = "" /\ ret[c].bool = FALSE)

\* The fetch of key_mgr.json failed with a network or HTTP error.
KmFetchFailed(c) == kmL[c].fetchExc \in {"ConnectionError", "HTTPError"}

\* C10 (the resolver): after a network or HTTP failure of the fetch, key_mgr
\* returns, and returns the document of key_mgr.json as it is on disk, or
\* absent when there is no such file.
C10_FallbackState ==
  \A c \in Callers :
    (KmFetchFailed(c) /\ kmL[c].state # "running") =>
      /\ kmL[c].state = "returned"
      /\ kmL[c].result = kmL[c].onDisk
      /\ ret[c] = Value(kmL[c].onDisk)
      /\ cacheKm.set

\* C10 (the gate): when that result is absent, the step of enabled that
\* takes it returns False.
C10_GateStep ==
  \A c \in Callers :
    (/\ At(c, "e_km_ret") /\ KmFetchFailed(c) /\ kmL[c].state = "returned"
     /\ kmL[c].onDisk = NoDoc /\ stack'[c] # stack[c])
      => (ret'[c] = Bool(FALSE) /\ cacheEnabled' = [set |-> TRUE, val |-> FALSE])

C11_TimeoutIsRecoverable ==
  \A c \in Callers :
    /\ \A i \in 1..Len(rootL[c].results) :
         rootL[c].results[i] = "Timeout" =>
           /\ i = Len(rootL[c].results)
           /\ RootReturned(c)
           /\ rootL[c].result.version = rootL[c].fetched[i] - 1
    /\ (kmL[c].fetchExc = "Timeout" /\ kmL[c].state # "running") =>
         /\ kmL[c].state = "returned"
         /\ kmL[c].result = kmL[c].onDisk
         /\ ret[c].exc = ""

\* The exceptions of a failed fetch, of a malformed response, and of a
\* failed verification of a fetched document or of an artifact signature.
DegradingFailures ==
  {"HTTPError", "ConnectionError", "Timeout", "ValueError", "SignatureError"}

\* C12: a call of the verifier, or a read of enabled, never ends with the
\* exception of a failed fetch, a malformed response, a failed chain
\* verification or an invalid artifact signature.
C12_FailuresAreContained ==
  \A c \in Callers :
    (Idle(c) /\ op[c] \in {"verify", "enabled"}) => ret[c].exc \notin DegradingFailures

\* C13: a read of trusted_root ends with a root document, never with an
\* exception, whatever failed while it resolved.
C13_RootNeverFatal ==
  \A c \in Callers :
    (Idle(c) /\ op[c] = "trusted_root") =>
      (ret[c].exc = "" /\ ret[c].doc.kind = "root")

\* C14 (the value): a read of enabled, trusted_root or key_mgr that began
\* after a read of the same property had returned, returns that same value.
C14_SameValue ==
  \A c \in Callers :
    (Idle(c) /\ later[c]) => ret[c] = firstRet[op[c]]

\* C14 (the effects): such a read fetches nothing and writes nothing.
C14_NoEffect ==
  \A c \in Callers :
    (later[c] /\ ~Idle(c) /\ stack'[c] # stack[c]) =>
      (countVars' = countVars /\ diskVars' = diskVars)

\* C14: once a property has returned a value, every later read of it returns
\* the identical value, with no further fetch and no further write.
C14_IdempotentAfterSuccess == [](C14_SameValue) /\ [][C14_NoEffect]_vars

\* C15: over any sequence of reads of enabled and key_mgr and calls of the
\* verifier by one thread, resolutions that end in an exception included,
\* key_mgr.json is fetched at most once.
C15_KeyMgrResolvedOnce == active = {"t1"} => kmFetches <= 1

\* The files 2.root.json .. n.root.json, the chain an earlier process left.
ChainOnDisk(n) == {ToStr(k) : k \in 2..n}

\* C16: a process that finds the whole chain up to version n on disk, the
\* authority having published nothing newer and answering as published,
\* fetches version n+1 and nothing else, is told not-found, writes no file
\* and returns version n.  (n runs over chains of ten versions too.)
C16_OneProbe ==
  \A c \in Callers : \A n \in 2..MaxVersion :
    (/\ RootReturned(c)
     /\ rootL[c].scanned = ChainOnDisk(n)
     /\ remoteTop = n
     /\ \A i \in 1..Len(rootL[c].results) :
          \/ rootL[c].results[i] = "ok"
          \/ rootL[c].results[i] = "not_found" /\ rootL[c].fetched[i] > remoteTop)
      => /\ rootL[c].fetched = <<n + 1>>
         /\ rootL[c].results = <<"not_found">>
         /\ rootL[c].wrote = <<>>
         /\ rootL[c].result.version = n

\* A step of trusted_root that writes a file finds no file of that name.
C17_WriteStep ==
  \A c \in Callers :
    (At(c, "r_write") /\ rootL'[c].wrote # rootL[c].wrote) =>
      ToStr(NextVersion(rootL[c].trusted)) \notin DOMAIN rootDisk

\* C17: root resolution writes <v>.root.json only when the directory holds
\* no file of that name: persisted versions are never written again.
C17_AppendOnly == [][C17_WriteStep]_vars

\* A step of trusted_root that replaces the current trusted document replaces
\* it by one verify_root accepts against it, of a higher version.
C18_AdoptionStep ==
  \A c \in Callers :
    (/\ rootL[c].trusted # NoDoc /\ rootL'[c].trusted # NoDoc
     /\ rootL'[c].trusted # rootL[c].trusted) =>
      /\ rootL'[c].trusted.version > rootL[c].trusted.version
      /\ verify_root(rootL[c].trusted, rootL'[c].trusted)
      /\ rootL'[c].trusted = rootL[c].untrusted

\* The documents adopted so far follow the starting candidate version by
\* version, and the returned root is the starting candidate (the bootstrap
\* root or a file of the directory) or the last document adopted.
C18_ChainState ==
  \A c \in Callers :
    rootL[c].start # NoDoc =>
      LET L == rootL[c]
      IN /\ \/ L.start = INITIAL_TRUST_ROOT
            \/ \E s \in L.scanned : IsInt(s) /\ L.start.version = ParseInt(s)
         /\ \A i \in 1..Len(L.wrote) : L.wrote[i] = L.start.version + i
         /\ L.trusted.version >= L.start.version
         /\ L.trusted.signer = "rootkey"
         /\ RootReturned(c) =>
              /\ L.result = L.trusted
              /\ L.result.version = L.start.version + Len(L.wrote)

\* C18: in root resolution the version of the trusted document strictly
\* increases at every adoption, a fetched document is adopted only when
\* verify_root accepts it against the current one, and the returned root is
\* the bootstrap root, the loaded file or a document so verified.
C18_VerifiedChain == [](C18_ChainState) /\ [][C18_AdoptionStep]_vars

C18_Witness ==
  \E c \in Callers :
    /\ RootReturned(c) /\ rootL[c].scanned # {}
    /\ Len(rootL[c].wrote) = 2
    /\ rootL[c].result.version = rootL[c].start.version + 2

\* C19: when the delegation check of the artifact raises an exception other
\* than the signature error, the call of the verifier ends with that same
\* exception and the record carries no status.
C19_OtherErrorsPropagate ==
  \A c \in Callers :
    (VerifyEnded(c) /\ callL[c].gate = "open" /\ callL[c].fn \in DOMAIN callL[c].sigs) =>
      LET L == callL[c]
          exc == CheckArtifact(L.sigs[L.fn], L.km)
      IN exc \notin {"", "SignatureError"} =>
           /\ ret[c] = Raise(exc)
           /\ L.info = [payload |-> "meta", status |-> "absent"]

C19_Witness ==
  \E c \in Callers :
    /\ VerifyEnded(c) /\ callL[c].gate = "open"
    /\ callL[c].sigs = [f \in {Target} |-> "malformed"]
    /\ ret[c].exc = "MetadataVerificationError"
    /\ callL[c].info.status = "absent"

\* C20: in key_mgr the fallback to the copy on disk follows only a
\* ConnectionError or an HTTPError of the fetch; any other exception of the
\* fetch, and a failed delegation check of the fetched document, leaves
\* key_mgr as that exception, key_mgr.json being neither read nor written
\* by this resolution.
C20_OnlyNetworkFallsBack ==
  \A c \in Callers :
    LET L == kmL[c]
        untouched == L.state = "raised" /\ L.onDisk = NoDoc /\ L.result = NoDoc
                       /\ c \notin kmWriters
    IN /\ (L.state = "returned" /\ L.fetchExc \notin {"-", ""}) =>
            L.fetchExc \in {"ConnectionError", "HTTPError"}
       /\ L.fetchExc \in {"ValueError", "Timeout"} =>
            (untouched /\ ret[c] = Raise(L.fetchExc))
       /\ (L.untrusted # NoDoc /\ L.root # NoDoc /\ L.untrusted.signer # L.root.delegate) =>
            (untouched /\ ret[c] = Raise("SignatureError"))
       /\ L.state = "raised" =>
            (ret[c].exc \notin {"", "ConnectionError", "HTTPError"} /\ untouched)

C20_Witness ==
  \E c \in Callers :
    /\ kmL[c].state = "raised" /\ ret[c].exc = "SignatureError"
    /\ kmDisk = OldKm /\ kmL[c].onDisk = NoDoc
    /\ c \notin kmWriters

\* C21: the fetcher reports a response whose status is not 2xx as an
\* HTTPError, a 2xx response whose body is not JSON as a ValueError, and
\* returns the document of a 2xx JSON response with no error; so the kind
\* of the exception tells which of the two failures occurred.
C21_ErrorKindsTellApart ==
  (exchange # NoExchange /\ exchange.raw.net = "ok") =>
    LET raw == exchange.raw
        out == exchange.out
        success == raw.status >= 200 /\ raw.status <= 299
    IN /\ ~success => out.exc = "HTTPError"
       /\ (success /\ ~raw.json) => out.exc = "ValueError"
       /\ (success /\ raw.json) => (out.exc = "" /\ out.doc = raw.doc)

\* A scan of the directory by trusted_root loads no file that a writer has
\* opened and not finished.
C22_ScanStep ==
  \A c \in Callers :
    (At(c, "r_scan") /\ stack'[c] # stack[c]) =>
      LET path == FirstParsable(SortedReverse(Glob(DOMAIN rootDisk)))
      IN path # <<>> => rootDisk[path] # BeingWritten

\* C22: writes to the verification directory are atomic for a concurrent
\* scan: the resolver that looks for the highest <int>.root.json never loads
\* a root file another caller is still writing.
C22_AtomicWrites == [][C22_ScanStep]_vars

\* The thread's call of the verifier went past the gate and checked the
\* package against a key-manager.
Verified(c) ==
  /\ VerifyEnded(c) /\ callL[c].gate = "open"
  /\ callL[c].fn \in DOMAIN callL[c].sigs /\ callL[c].info.status # "absent"

\* C23: all callers of the verifier check their packages against one
\* root/key-manager pair, the one the process has settled on: once every
\* thread has finished, the key-manager each call used is the memoized one,
\* resolved under the memoized root.
C23_SinglePair ==
  (\A d \in active : Idle(d)) =>
    \A c \in active :
      Verified(c) => (cacheKm.set /\ cacheRoot.set /\ callL[c].km = cacheKm.doc)

\* A read of enabled that began after a read of it had returned False
\* returns False; and it fetches nothing.
C24_FalseValue ==
  \A c \in Callers :
    (later[c] /\ op[c] = "enabled" /\ Idle(c) /\ firstRet["enabled"] = Bool(FALSE)) =>
      ret[c] = Bool(FALSE)

C24_NoFetch ==
  \A c \in Callers :
    (later[c] /\ op[c] = "enabled" /\ firstRet["enabled"] = Bool(FALSE)
       /\ stack'[c] # stack[c]) =>
      (rootFetches' = rootFetches /\ kmFetches' = kmFetches)

\* C24: the gate's answer is memoized, False included: once a read of
\* enabled has returned False, every later read returns False with no new
\* fetch, whatever the server would answer by then.
C24_FalseIsMemoized == [](C24_FalseValue) /\ [][C24_NoFetch]_vars

\* The answers of enabled that the configuration alone decides.
ConfigClosers == {"safety_checks_off", "no_url_base", "not_installed"}

\* With one of the three configuration checks failing no step fetches,
\* writes a file or creates the directory.
C25_Step == ~ConfigOn => (diskVars' = diskVars /\ countVars' = countVars)

\* A read of enabled decided by the configuration has returned False, with
\* nothing fetched and the directory not scanned.
C25_State ==
  \A c \in Callers :
    enL[c] \in ConfigClosers =>
      /\ (Idle(c) /\ op[c] = "enabled") => ret[c] = Bool(FALSE)
      /\ rootL[c] = NoRootL /\ kmL[c] = NoKmL
      /\ kmFetches = 0 /\ \A v \in Versions : rootFetches[v] = 0
      /\ kmWriters = {} /\ \A v \in Versions : rootWriters[v] = {}

\* C25: when enabled returns False because safety checks are off, no base
\* URL is configured or conda_content_trust is missing, it has fetched
\* nothing, has neither scanned nor written the verification directory, and
\* has not created it.
C25_ConfigGateHasNoEffect == [](C25_State) /\ [][C25_Step]_vars

C25_Witness ==
  \E c \in Callers :
    /\ Idle(c) /\ op[c] = "enabled" /\ enL[c] = "no_url_base"
    /\ ret[c] = Bool(FALSE) /\ ~dirExists

\* The turn of the loop that did not get a verified document ends it: the
\* trusted document stays, no file is written.
C26_FailingStep ==
  \A c \in Callers :
    (/\ At(c, "r_fetch") /\ stack'[c] # stack[c]
     /\ Last(rootL'[c].results) # "ok") =>
      /\ rootL'[c].trusted = rootL[c].trusted
      /\ RootReturned(c)'
      /\ rootL'[c].result = rootL[c].trusted
      /\ ret'[c] = Value(rootL[c].trusted)
      /\ rootDisk' = rootDisk /\ rootWriters' = rootWriters

\* Every turn asked for the version after the current one; a turn that met
\* not-found, another fetch failure or a verification failure is the last:
\* its version is asked for once and no later version is asked for.
C26_LoopState ==
  \A c \in Callers :
    LET L == rootL[c]
    IN \A i \in 1..Len(L.results) :
         /\ L.fetched[i] = L.start.version + i
         /\ L.results[i] # "ok" =>
              /\ i = Len(L.results)
              /\ RootReturned(c)
              /\ L.result.version = L.fetched[i] - 1
              /\ \A j \in 1..Len(L.wrote) : L.wrote[j] < L.fetched[i]

\* C26: in the refresh loop a not-found answer for version current+1, and
\* any other failure of the fetch or of the verification, ends the loop at
\* once, the current document unchanged and nothing written; the failing
\* version is not asked for again and no later version is asked for.
C26_FailureEndsLoop == [](C26_LoopState) /\ [][C26_FailingStep]_vars

C26_Witness ==
  \E c \in Callers :
    /\ RootReturned(c)
    /\ rootL[c].results = <<"ok", "HTTPError">>
    /\ rootL[c].result.version = rootL[c].start.version + 1

\* A step that writes key_mgr.json is the write of key_mgr, after a fetch
\* that returned a document and a delegation check of that document
\* against the root trusted_root returned; the document written is that one.
C27_WriteStep ==
  (kmDisk' # kmDisk \/ kmWriters' # kmWriters) =>
    \E c \in Callers :
      /\ At(c, "k_write") /\ stack'[c] # stack[c]
      /\ kmL[c].fetchExc = ""
      /\ kmL[c].untrusted.kind = "key_mgr"
      /\ kmL[c].root.kind = "root"
      /\ kmL[c].untrusted.signer = kmL[c].root.delegate
      /\ kmDisk' = kmL[c].untrusted
      /\ kmWriters' = kmWriters \cup {c}

\* A resolution whose fetch failed, or whose document the root does not
\* vouch for, has written nothing.
C27_FailureState ==
  \A c \in Callers :
    (\/ kmL[c].fetchExc \notin {"-", ""}
     \/ (kmL[c].untrusted # NoDoc /\ kmL[c].root # NoDoc
           /\ kmL[c].untrusted.signer # kmL[c].root.delegate)) =>
      (c \notin kmWriters /\ kmL[c].trusted = NoDoc)

\* C27: key_mgr.json is written only with a document that was fetched and
\* passed the key_mgr delegation check against the trusted root; a failed
\* fetch or a failed check leaves the file as it was.
C27_OnlyVerifiedWritten == [](C27_FailureState) /\ [][C27_WriteStep]_vars

C27_Witness ==
  \E c \in Callers :
    /\ kmL[c].state = "returned" /\ c \in kmWriters
    /\ kmL[c].onDisk = kmL[c].untrusted /\ kmDisk = PublishedKm
    /\ kmDisk.signer = "kmkey2"

\* key_mgr.json is fetched only by the fetch step of key_mgr, which a
\* resolution takes once: before it the resolution has fetched nothing, after
\* it the resolution is past the fetch.
C28_FetchStep ==
  /\ kmFetches' # kmFetches =>
       \E c \in Callers :
         /\ At(c, "k_fetch") /\ kmL[c].fetchExc = "-"
         /\ kmL'[c].fetchExc # "-"
         /\ kmFetches' = kmFetches + 1
         /\ Idle(c)' \/ Top(c)' # "k_fetch"
  /\ \A c \in Callers :
       (At(c, "k_fetch") /\ stack'[c] # stack[c]) => kmFetches' = kmFetches + 1

\* The delegation check of the fetched document is made against the root
\* that trusted_root returned, the one its refresh loop ended with: the
\* document goes on to be written exactly when that root vouches for it.
C28_CheckStep ==
  \A c \in Callers :
    (At(c, "k_root_ret") /\ stack'[c] # stack[c] /\ ret[c].exc = "") =>
      /\ kmL'[c].root = ret[c].doc
      /\ ret[c].doc.kind = "root"
      /\ RootReturned(c) =>
           /\ ret[c].doc = rootL[c].result
           /\ ret[c].doc.version = rootL[c].start.version + Len(rootL[c].wrote)
      /\ ~RootReturned(c) => firstRet["trusted_root"] # Unreturned
      /\ (~Idle(c)' /\ Top(c)' = "k_write") <=>
           kmL[c].untrusted.signer = ret[c].doc.delegate

\* A resolution that has ended has fetched.
C28_State ==
  \A c \in Callers :
    kmL[c].state \in {"returned", "raised"} => kmL[c].fetchExc # "-"

\* C28: one key-manager resolution fetches key_mgr.json exactly once, and
\* checks the fetched document against the root returned by root
\* resolution after its refresh loop, never against the candidate the loop
\* started from.
C28_OneFetchFinalRoot == [](C28_State) /\ [][C28_FetchStep /\ C28_CheckStep]_vars

C28_Witness ==
  \E c \in Callers :
    /\ kmL[c].state = "returned" /\ c \in kmWriters /\ kmFetches = 1
    /\ kmL[c].untrusted = PublishedKm
    /\ kmL[c].root.delegate = "kmkey2"
    /\ rootWriters[kmL[c].root.version] # {}

\* C29: the refresh loop ends for every finite chain of the server: a read
\* of trusted_root that ran the loop ends by returning, after one fetch more
\* than the versions it adopted, the last fetch being the one that failed or
\* was answered not-found.
C29_LoopEndsAfterLastProbe ==
  \A c \in Callers :
    (Idle(c) /\ op[c] = "trusted_root" /\ rootL[c].fetched # <<>>) =>
      LET L == rootL[c]
          adopted == L.trusted.version - L.start.version
      IN /\ RootReturned(c) /\ ret[c] = Value(L.result)
         /\ Len(L.fetched) = adopted + 1
         /\ Last(L.results) # "ok"

\* C30: whenever enabled has returned True the verification directory
\* exists and the memoized trusted root and key-manager are both present,
\* and a call of the verifier that passes the gate checks its package
\* against a key-manager that is not absent.
C30_OpenGateHasTrustState ==
  /\ (cacheEnabled.set /\ cacheEnabled.val) =>
       /\ dirExists
       /\ cacheRoot.set /\ cacheRoot.doc.kind = "root"
       /\ cacheKm.set /\ cacheKm.doc.kind = "key_mgr"
  /\ \A c \in Callers :
       (VerifyEnded(c) /\ callL[c].gate = "open" /\ callL[c].fn \in DOMAIN callL[c].sigs) =>
         callL[c].km.kind = "key_mgr"

\* A step by which a frame of trusted_root (its wrapper or its body) returns
\* to its caller without an exception.
C31_ReturnStep ==
  \A c \in Callers :
    (/\ c \in active /\ ~Idle(c)
     /\ Top(c) \in {"r_enter", "r_scan", "r_fetch", "r_write", "r_write_end"}
     /\ Len(stack'[c]) < Len(stack[c]) /\ ret'[c].exc = "")
      => (ret'[c].doc.kind = "root" /\ ret'[c].doc # NoDoc)

\* What trusted_root has memoized is a document, the gate that has taken a
\* normal return of it holds a document, and no run of the gate was decided
\* by the "trusted root missing" branch of lines 67-71.
C31_State ==
  /\ cacheRoot.set => cacheRoot.doc.kind = "root"
  /\ \A c \in Callers :
       /\ enL[c] # "no_trusted_root"
       /\ (At(c, "e_root_ret") /\ ret[c].exc = "") => ret[c].doc.kind = "root"
       /\ (At(c, "k_root_ret") /\ ret[c].exc = "") => ret[c].doc.kind = "root"

\* C31: whenever trusted_root returns, it returns a document and never
\* absent, so the "trusted root missing" outcome of the gate is not reached
\* through a normal return of root resolution.
C31_RootNeverAbsent == [](C31_State) /\ [][C31_ReturnStep]_vars

\* The gate holds the root that the body of trusted_root has just returned
\* after running its loop, and is about to test it against None.
C31_Witness ==
  \E c \in Callers :
    /\ At(c, "e_root_ret") /\ ret[c].exc = ""
    /\ RootReturned(c) /\ rootL[c].fetched # <<>>
    /\ ret[c] = Value(rootL[c].result)
    /\ rootL[c].result.kind = "root"

\* The key-manager document d passed the key_mgr delegation check at an
\* earlier point, against a root of the authority's chain that was the
\* trusted root then and delegates the key d is signed with.
WasVouched(d) ==
  \E p \in vouched :
    /\ p.doc = d /\ d.kind = "key_mgr"
    /\ p.root.kind = "root" /\ p.root.signer = "rootkey"
    /\ d.signer = p.root.delegate

\* A step by which key_mgr (its wrapper or its body) returns a document.
C32_ReturnStep ==
  \A c \in Callers :
    (/\ c \in active /\ ~Idle(c) /\ Top(c) \in {"k_enter", "k_return"}
     /\ Len(stack'[c]) < Len(stack[c])
     /\ ret'[c].exc = "" /\ ret'[c].doc # NoDoc)
      => WasVouched(ret'[c].doc)

\* What key_mgr is about to return, has memoized, or has handed to the gate
\* or the verifier.
C32_State ==
  /\ (cacheKm.set /\ cacheKm.doc # NoDoc) => WasVouched(cacheKm.doc)
  /\ \A c \in Callers :
       /\ (kmL[c].state = "returned" /\ kmL[c].result # NoDoc) => WasVouched(kmL[c].result)
       /\ callL[c].km # NoDoc => WasVouched(callL[c].km)

\* C32: in a verification directory that only this resolver writes, every
\* key-manager document key_mgr returns, fetched or loaded by the fallback,
\* has earlier passed the key_mgr delegation check against a root that was
\* trusted at that time.
C32_ReturnedKeyMgrWasVerified == [](C32_State) /\ [][C32_ReturnStep]_vars

\* The fetch failed and the fallback returned the copy on disk, which an
\* earlier read had verified.
C32_Witness ==
  \E c \in Callers :
    /\ kmL[c].state = "returned" /\ KmFetchFailed(c)
    /\ kmL[c].trusted = NoDoc /\ kmL[c].result = OldKm
    /\ ret[c] = Value(OldKm) /\ WasVouched(OldKm)

\* The records a call may leave of the record r it was given: r itself, or
\* r with one of the two status strings under metadata_signature_status.
Annotations(r) == {r, [r EXCEPT !.status = TRUSTED], [r EXCEPT !.status = WARNING]}

\* C33: a call of the verifier changes the record in at most one field:
\* during and after the call, whether it returns or raises, every field but
\* metadata_signature_status has the value it had before the call, and the
\* status is the one it had before or one of the two fixed strings.
C33_OnlyStatusChanges ==
  \A c \in Callers :
    (op[c] = "verify" /\ callL[c].fn # "-") =>
      LET L == callL[c]
      IN /\ L.info.payload = L.before.payload
         /\ L.info.status \in {L.before.status, TRUSTED, WARNING}
         /\ L.info \in Annotations(L.before)
         /\ L.before = [payload |-> "meta", status |-> "absent"]

\* A call has ended with the trusted status set and the content of the
\* record as it was.
C33_Witness ==
  \E c \in Callers :
    /\ VerifyEnded(c) /\ callL[c].gate = "open"
    /\ callL[c].info = [callL[c].before EXCEPT !.status = TRUSTED]
    /\ callL[c].before.status = "absent"
    /\ callL[c].envelope.signed = callL[c].before

\* The signature set a map stores under a file name, "none" when it stores
\* none.
EntryOf(sigs, fn) == IF fn \in DOMAIN sigs THEN sigs[fn] ELSE "none"

\* What lines 232-247 give a record without a status, for the answer of the
\* gate, the key-manager key_mgr returns, a file name and a map: the status
\* the record has after the call, and the exception that escapes.
VerdictFor(isEnabled, km, fn, sigs) ==
  IF ~PassesGate(isEnabled, fn, sigs) THEN [status |-> "absent", exc |-> ""]
  ELSE LET exc == CheckArtifact(Envelope(NoCallL.info, fn, sigs).signatures, km)
       IN IF exc # "" /\ ~Handled(exc) THEN [status |-> "absent", exc |-> exc]
          ELSE [status |-> StatusFor(exc), exc |-> ""]

\* C34: the verifier checks a package against the signature set stored
\* under its own file name only: the outcome of a call for file name f (the
\* status and the exception) is the outcome for every map that stores the
\* same under f, whatever entries the maps have for other file names.
C34_OwnEntryOnly ==
  \A c \in Callers :
    (VerifyEnded(c) /\ callL[c].gate \in {"open", "closed"}) =>
      LET L == callL[c]
      IN \A other \in SignatureMaps :
           EntryOf(other, L.fn) = EntryOf(L.sigs, L.fn) =>
             [status |-> L.info.status, exc |-> ret[c].exc]
               = VerdictFor(L.gate = "open", L.km, L.fn, other)

\* A call whose map holds a forged entry for another file and a valid one
\* for its own has ended with the trusted status.
C34_Witness ==
  \E c \in Callers :
    /\ VerifyEnded(c) /\ callL[c].gate = "open"
    /\ callL[c].fn = Target
    /\ callL[c].sigs = [f \in Filenames |-> IF f = Target THEN "pkgkey1" ELSE "forged"]
    /\ callL[c].info.status = TRUSTED /\ ret[c].exc = ""

\* C35: the fetcher sends If-None-Match exactly when an etag is supplied
\* and If-Modified-Since exactly when a modification stamp is supplied (an
\* empty string, like None, is no validator), each with the value supplied;
\* with neither, the request carries the two fixed headers only.
C35_ConditionalHeaders ==
  exchange # NoExchange =>
    LET h == exchange.headers
        etagSupplied == exchange.etag \notin {None, ""}
        stampSupplied == exchange.mod_stamp \notin {None, ""}
    IN /\ ("If-None-Match" \in DOMAIN h) <=> etagSupplied
       /\ ("If-Modified-Since" \in DOMAIN h) <=> stampSupplied
       /\ etagSupplied => h["If-None-Match"] = exchange.etag
       /\ stampSupplied => h["If-Modified-Since"] = exchange.mod_stamp
       /\ {"Accept-Encoding", "Content-Type"} \subseteq DOMAIN h
       /\ h["Accept-Encoding"] = "gzip, deflate, compress, identity"
       /\ h["Content-Type"] = "application/json"
       /\ (~etagSupplied /\ ~stampSupplied) =>
            DOMAIN h = {"Accept-Encoding", "Content-Type"}
       /\ Cardinality(DOMAIN h) =
            2 + (IF etagSupplied THEN 1 ELSE 0) + (IF stampSupplied THEN 1 ELSE 0)

\* A request made with an etag and no modification stamp carries the etag
\* under If-None-Match and no If-Modified-Since.
C35_Witness ==
  /\ exchange # NoExchange
  /\ exchange.etag = "W/\"5f3a\"" /\ exchange.mod_stamp = None
  /\ DOMAIN exchange.headers = {"Accept-Encoding", "Content-Type", "If-None-Match"}
  /\ exchange.headers["If-None-Match"] = "W/\"5f3a\""

====
